---- MODULE Spec2Model ----
(***************************************************************************)
(* Model of the realtime core of @aerodb/client:                           *)
(*   src/src/realtime/RealtimeClient.ts   (connection manager)             *)
(*   src/src/realtime/RealtimeChannel.ts  (channel)                        *)
(*   src/src/lib/constants.ts             (REALTIME_CONFIG)                *)
(*                                                                         *)
(* JavaScript runs every handler to completion, so one action is one       *)
(* handler: an API call of the application, a socket event (open, close)   *)
(* or a timer firing.  The code of a handler is a composition of operators *)
(* over a record `c` holding the fields of the RealtimeClient and of the   *)
(* RealtimeChannel objects; the action stores the resulting record.        *)
(*                                                                         *)
(* The WebSocket objects are the environment.  They follow the WHATWG      *)
(* interface: readyState CONNECTING -> OPEN -> CLOSED, close() moves a     *)
(* socket to CLOSING and its close event is delivered later, no open event *)
(* is delivered after close(), send() raises on a CONNECTING socket and    *)
(* may raise on an OPEN one (the code guards it with try/catch).           *)
(* setupWebSocket installs the same four closures on every socket, so two  *)
(* sockets differ only in their readyState and in whether this.ws refers   *)
(* to them: `ws` holds the readyState of the socket this.ws refers to and  *)
(* `detached` counts, per readyState, the sockets the client has dropped   *)
(* but whose events are still to come.                                     *)
(***************************************************************************)
EXTENDS Integers, Sequences, FiniteSets, TLC

\* ---------------------------------------------------------------- bounds
\* channel names the application uses
Names == {"A", "B"}
\* RealtimeChannel objects ever constructed (stale ones stay referenced)
MaxObjs == 1
\* WebSocket objects that are not yet CLOSED at one time
MaxSockets == 2
\* length of messageQueue
MaxQueue == 1
\* reconnectAttempts in the general specifications
MaxAttempts == 1
\* reconnectAttempts in the backoff specification
MaxBackoffAttempts == 7
\* position, among the ws.send calls of one handler, up to which a call may
\* raise on an OPEN socket
MaxFaultIdx == 1
\* RealtimeChannel objects ever constructed, in the registry specification
MaxRegObjs == 2

\* ------------------------------------------------- REALTIME_CONFIG values
HEARTBEAT_INTERVAL_MS == 30000
RECONNECT_DELAY_MS == 1000
MAX_RECONNECT_DELAY_MS == 30000
RECONNECT_BACKOFF_MULTIPLIER == 2

\* ------------------------------------------------------------------ types
ConnectionState == {"CONNECTING", "CONNECTED", "DISCONNECTED", "RECONNECTING"}
RealtimeEventType == {"INSERT", "UPDATE", "DELETE", "*"}
\* payload.type of an inbound event
PayloadTypes == {"INSERT", "UPDATE", "DELETE"}
\* the application's callbacks; "bad" is one that throws
Callbacks == {"h1", "h2", "bad"}
\* the registrations the application makes in SpecChan
ChanEvents == {"INSERT"}
ChanCallbacks == {"h1"}
\* a socket that is not CLOSED: its readyState and whether its open event
\* has been delivered
SocketKinds ==
    {[readyState |-> "CONNECTING", opened |-> FALSE],
     [readyState |-> "OPEN", opened |-> TRUE],
     [readyState |-> "CLOSING", opened |-> TRUE],
     [readyState |-> "CLOSING", opened |-> FALSE]}
\* the ws.send calls of one handler that raise, by position: none, or one
\* of the first MaxFaultIdx
FaultSets == {{}} \cup {{i} : i \in 1..MaxFaultIdx}

VARIABLES
    \* RealtimeClient fields
    wsUrlOk,            \* whether `new WebSocket(url)` accepts the client's url
    ws,                 \* this.ws: "null", or the readyState of that socket
    channels,           \* this.channels: the Map, as object ids in insertion order
    connectionState,
    reconnectAttempts,
    reconnectTimeout,   \* 0 for null, else the delay of the pending setTimeout
    heartbeatInterval,  \* TRUE when a setInterval is pending
    messageQueue,
    \* heap and environment
    objs,               \* every RealtimeChannel constructed: name, subscribed, handlers
    detached,           \* sockets this.ws does not refer to: kind -> count
    \* observation of the last handler
    handed,             \* frames passed to sendMessage, in order
    wire,               \* frames ws.send accepted, in order
    overtaken,          \* frames that were in messageQueue while ws.send
                        \* accepted another frame
    invoked,            \* callbacks that dispatch called, in order
    escaped,            \* an exception left the handler
    scheduled,          \* delay passed to setTimeout by scheduleReconnect, or 0
    last,               \* which handler ran, and on what
    \* history
    attempted,          \* connect() got past its idempotence guard at least once
    streak,             \* reconnect timers fired since the last open event
    atLoss              \* the channel objects registered and subscribed when
                        \* the socket this.ws referred to closed, until the
                        \* next open event

vars == <<wsUrlOk, ws, channels, connectionState, reconnectAttempts,
          reconnectTimeout, heartbeatInterval, messageQueue, objs, detached,
          handed, wire, overtaken, invoked, escaped, scheduled, last,
          attempted, streak, atLoss>>

\* ---------------------------------------------------------------- helpers
Min(a, b) == IF a <= b THEN a ELSE b

RECURSIVE Pow(_, _)
Pow(b, e) == IF e = 0 THEN 1 ELSE b * Pow(b, e - 1)

Range(s) == {s[i] : i \in 1..Len(s)}

\* mutant: nothing is removed
Without_Keep(s, x) == s

RECURSIVE Without(_, _)
\* the sequence s with every occurrence of x removed
Without(s, x) ==
    IF s = <<>> THEN <<>>
    ELSE IF Head(s) = x THEN Without(Tail(s), x)
    ELSE <<Head(s)>> \o Without(Tail(s), x)

Frame(t, n) == [type |-> t, channel |-> n]
HeartbeatFrame == Frame("heartbeat", "-")

NoHandlers == [e \in RealtimeEventType |-> <<>>]

\* new RealtimeChannel(name, ...)
NewChannel(name) == [name |-> name, subscribed |-> FALSE, handlers |-> NoHandlers]

\* the fields of the program as one record, with the inputs of the handler:
\* faults = the ws.send calls (by position) that raise on an OPEN socket
St(faults) ==
    [wsUrlOk |-> wsUrlOk, ws |-> ws, channels |-> channels,
     connectionState |-> connectionState,
     reconnectAttempts |-> reconnectAttempts,
     reconnectTimeout |-> reconnectTimeout,
     heartbeatInterval |-> heartbeatInterval,
     messageQueue |-> messageQueue, objs |-> objs, detached |-> detached,
     handed |-> <<>>, wire |-> <<>>, overtaken |-> <<>>, invoked |-> <<>>, escaped |-> FALSE,
     scheduled |-> 0,
     attempted |-> attempted,
     faults |-> faults, nsend |-> 0, overflow |-> FALSE]

\* this.channels.has(name) / get(name): the registered object id, or 0
\* mutant: no entry is ever found
Lookup_Miss(c, name) == 0

Lookup(c, name) ==
    LET hits == {i \in 1..Len(c.channels) : c.objs[c.channels[i]].name = name}
    IN IF hits = {} THEN 0 ELSE c.channels[CHOOSE i \in hits : TRUE]

\* -------------------------------------------------------- RealtimeClient
\* mutant: the interval is not cleared
stopHeartbeat_Keep(c) == c

stopHeartbeat(c) == [c EXCEPT !.heartbeatInterval = FALSE]

startHeartbeat(c) == [stopHeartbeat(c) EXCEPT !.heartbeatInterval = TRUE]

stopReconnect(c) == [c EXCEPT !.reconnectTimeout = 0]

\* mutant: the delay is not capped
BackoffDelay_Uncapped(attempts) ==
    RECONNECT_DELAY_MS * Pow(RECONNECT_BACKOFF_MULTIPLIER, attempts)

BackoffDelay(attempts) ==
    Min(RECONNECT_DELAY_MS * Pow(RECONNECT_BACKOFF_MULTIPLIER, attempts),
        MAX_RECONNECT_DELAY_MS)

\* mutant: the manager gives up after three attempts
scheduleReconnect_GiveUp(c) ==
    IF c.reconnectTimeout # 0 \/ c.reconnectAttempts >= 3 THEN c
    ELSE [c EXCEPT !.reconnectTimeout = BackoffDelay(c.reconnectAttempts),
                   !.scheduled = BackoffDelay(c.reconnectAttempts)]

scheduleReconnect(c) ==
    IF c.reconnectTimeout # 0 THEN c
    ELSE [c EXCEPT !.reconnectTimeout = BackoffDelay(c.reconnectAttempts),
                   !.scheduled = BackoffDelay(c.reconnectAttempts)]

\* the kind of the socket this.ws refers to
Held(c) == [readyState |-> c.ws, opened |-> c.ws = "OPEN"]

LiveSockets(c) ==
    (IF c.ws = "null" THEN 0 ELSE 1)
    + c.detached[[readyState |-> "CONNECTING", opened |-> FALSE]]
    + c.detached[[readyState |-> "OPEN", opened |-> TRUE]]
    + c.detached[[readyState |-> "CLOSING", opened |-> TRUE]]
    + c.detached[[readyState |-> "CLOSING", opened |-> FALSE]]

\* this.ws = null: the socket, if there is one, lives on without a referent
dropHandle(c) ==
    IF c.ws = "null" THEN c
    ELSE [c EXCEPT !.detached[Held(c)] = @ + 1, !.ws = "null"]

\* mutant: losing the socket unsubscribes the channels
handleDisconnect_Unsubscribes(c) ==
    LET c0 == [c EXCEPT !.objs = [o \in 1..Len(c.objs) |->
                                    [c.objs[o] EXCEPT !.subscribed = FALSE]]]
        c1 == dropHandle(stopHeartbeat(c0))
    IN IF c1.connectionState # "DISCONNECTED"
       THEN scheduleReconnect([c1 EXCEPT !.connectionState = "RECONNECTING"])
       ELSE c1

handleDisconnect(c) ==
    LET c1 == dropHandle(stopHeartbeat(c))
    IN IF c1.connectionState # "DISCONNECTED"
       THEN scheduleReconnect([c1 EXCEPT !.connectionState = "RECONNECTING"])
       ELSE c1

\* mutant: no early return when connecting or connected
connect_Again(c) ==
    LET c1 == [c EXCEPT !.connectionState = "CONNECTING", !.attempted = TRUE]
    IN IF ~c1.wsUrlOk THEN handleDisconnect(c1)
       ELSE IF LiveSockets(c1) >= MaxSockets THEN [c1 EXCEPT !.overflow = TRUE]
       ELSE [dropHandle(c1) EXCEPT !.ws = "CONNECTING"]

connect(c) ==
    IF c.connectionState = "CONNECTED" \/ c.connectionState = "CONNECTING"
    THEN c
    ELSE LET c1 == [c EXCEPT !.connectionState = "CONNECTING", !.attempted = TRUE]
         IN IF ~c1.wsUrlOk THEN handleDisconnect(c1)
            ELSE IF LiveSockets(c1) >= MaxSockets THEN [c1 EXCEPT !.overflow = TRUE]
            ELSE [dropHandle(c1) EXCEPT !.ws = "CONNECTING"]

\* this.ws.close(): readyState becomes CLOSING, the close event comes later
close(c) == [c EXCEPT !.ws = "CLOSING"]

\* mutant: a pending reconnect timer is left running
disconnect_KeepTimer(c) ==
    LET c1 == stopHeartbeat(c)
        c2 == IF c1.ws # "null"
              THEN LET opened == c1.ws = "OPEN"
                   IN [close(c1) EXCEPT
                         !.detached[[readyState |-> "CLOSING", opened |-> opened]] = @ + 1,
                         !.ws = "null"]
              ELSE c1
    IN [c2 EXCEPT !.connectionState = "DISCONNECTED",
                  !.channels = <<>>,
                  !.messageQueue = <<>>]

disconnect(c) ==
    LET c1 == stopReconnect(stopHeartbeat(c))
        c2 == IF c1.ws # "null"
              THEN LET opened == c1.ws = "OPEN"
                   IN [close(c1) EXCEPT
                         !.detached[[readyState |-> "CLOSING", opened |-> opened]] = @ + 1,
                         !.ws = "null"]
              ELSE c1
    IN [c2 EXCEPT !.connectionState = "DISCONNECTED",
                  !.channels = <<>>,
                  !.messageQueue = <<>>]

\* mutant: a frame whose ws.send raises is dropped
sendMessage_Drop(c, message) ==
    LET c1 == [c EXCEPT !.handed = Append(@, message)]
    IN IF c1.connectionState # "CONNECTED" \/ c1.ws = "null"
       THEN [c1 EXCEPT !.messageQueue = Append(@, message)]
       ELSE LET k == c1.nsend + 1
                c2 == [c1 EXCEPT !.nsend = k]
            IN IF c2.ws = "CONNECTING" \/ (c2.ws = "OPEN" /\ k \in c2.faults)
               THEN c2
               ELSE [c2 EXCEPT !.wire = Append(@, message),
                               !.overtaken = @ \o c2.messageQueue]

sendMessage(c, message) ==
    LET c1 == [c EXCEPT !.handed = Append(@, message)]
    IN IF c1.connectionState # "CONNECTED" \/ c1.ws = "null"
       THEN [c1 EXCEPT !.messageQueue = Append(@, message)]
       ELSE LET k == c1.nsend + 1
                c2 == [c1 EXCEPT !.nsend = k]
            IN IF c2.ws = "CONNECTING" \/ (c2.ws = "OPEN" /\ k \in c2.faults)
               THEN [c2 EXCEPT !.messageQueue = Append(@, message)]
               ELSE [c2 EXCEPT !.wire = Append(@, message),
                               !.overtaken = @ \o c2.messageQueue]

RECURSIVE sendAll(_, _)
\* for (const message of queue) this.sendMessage(message)
sendAll(c, queue) ==
    IF queue = <<>> THEN c
    ELSE sendAll(sendMessage(c, Head(queue)), Tail(queue))

flushMessageQueue(c) ==
    sendAll([c EXCEPT !.messageQueue = <<>>], c.messageQueue)

RECURSIVE SubscribeFrames(_, _)
\* the frames of resubscribeChannels, in the Map's iteration order
SubscribeFrames(c, reg) ==
    IF reg = <<>> THEN <<>>
    ELSE (IF c.objs[Head(reg)].subscribed
          THEN <<Frame("subscribe", c.objs[Head(reg)].name)>>
          ELSE <<>>) \o SubscribeFrames(c, Tail(reg))

resubscribeChannels(c) == sendAll(c, SubscribeFrames(c, c.channels))

\* this.ws.onopen
onopen(c) ==
    LET c1 == [c EXCEPT !.connectionState = "CONNECTED", !.reconnectAttempts = 0]
    IN resubscribeChannels(flushMessageQueue(startHeartbeat(c1)))

\* this.ws.onclose
\* mutant: the close event is ignored
onclose_Ignore(c) == c

onclose(c) == handleDisconnect(c)

\* this.ws.onerror
onerror(c) == c

handleChannelSubscribe(c, o) ==
    IF c.connectionState = "DISCONNECTED" THEN connect(c) ELSE c

\* mutant: the registry entry is removed but the connection is kept
handleChannelUnsubscribe_Keep(c, o) ==
    [c EXCEPT !.channels = Without(@, Lookup(c, c.objs[o].name))]

handleChannelUnsubscribe(c, o) ==
    LET named == Lookup(c, c.objs[o].name)
        c1 == [c EXCEPT !.channels = Without(@, named)]
        hasSubscribed == \E i \in 1..Len(c1.channels) : c1.objs[c1.channels[i]].subscribed
    IN IF ~hasSubscribed /\ Len(c1.channels) = 0 THEN disconnect(c1) ELSE c1

\* mutant: creating a channel connects
channel_Eager(c, name) ==
    IF Lookup(c, name) # 0 THEN c
    ELSE connect([c EXCEPT !.objs = Append(@, NewChannel(name)),
                           !.channels = Append(@, Len(c.objs) + 1)])

\* channel(name); the returned object is Lookup(result, name)
channel(c, name) ==
    IF Lookup(c, name) # 0 THEN c
    ELSE [c EXCEPT !.objs = Append(@, NewChannel(name)),
                   !.channels = Append(@, Len(c.objs) + 1)]

\* ------------------------------------------------------- RealtimeChannel
isSubscribed(c, o) == c.objs[o].subscribed

\* mutant: no early return for a subscribed channel
subscribe_Again(c, o) ==
    LET c1 == sendMessage(c, Frame("subscribe", c.objs[o].name))
        c2 == [c1 EXCEPT !.objs[o].subscribed = TRUE]
    IN handleChannelSubscribe(c2, o)

subscribe(c, o) ==
    IF c.objs[o].subscribed THEN c
    ELSE LET c1 == sendMessage(c, Frame("subscribe", c.objs[o].name))
             c2 == [c1 EXCEPT !.objs[o].subscribed = TRUE]
         IN handleChannelSubscribe(c2, o)

\* mutant: no early return for a channel that is not subscribed
unsubscribe_Again(c, o) ==
    LET c1 == sendMessage(c, Frame("unsubscribe", c.objs[o].name))
        c2 == [c1 EXCEPT !.objs[o].subscribed = FALSE,
                         !.objs[o].handlers = NoHandlers]
    IN handleChannelUnsubscribe(c2, o)

unsubscribe(c, o) ==
    IF ~c.objs[o].subscribed THEN c
    ELSE LET c1 == sendMessage(c, Frame("unsubscribe", c.objs[o].name))
             c2 == [c1 EXCEPT !.objs[o].subscribed = FALSE,
                              !.objs[o].handlers = NoHandlers]
         IN handleChannelUnsubscribe(c2, o)

on(c, o, event, callback) ==
    IF callback \in Range(c.objs[o].handlers[event]) THEN c
    ELSE [c EXCEPT !.objs[o].handlers[event] = Append(@, callback)]

\* callback = "" stands for the omitted argument
off(c, o, event, callback) ==
    IF callback = ""
    THEN [c EXCEPT !.objs[o].handlers[event] = <<>>]
    ELSE [c EXCEPT !.objs[o].handlers[event] = Without(@, callback)]

\* the callback that throws when it is called
Throws(callback) == callback = "bad"

RECURSIVE callAll_NoCatch(_, _)
\* mutant: the exception of a callback leaves the loop
callAll_NoCatch(c, handlers) ==
    IF handlers = <<>> THEN c
    ELSE LET c1 == [c EXCEPT !.invoked = Append(@, Head(handlers))]
         IN IF Throws(Head(handlers)) THEN [c1 EXCEPT !.escaped = TRUE]
            ELSE callAll_NoCatch(c1, Tail(handlers))

RECURSIVE callAll(_, _)
\* for (const handler of handlers) { try { handler(payload) } catch {} }:
\* every handler is called inside its own try/catch, so the throwing one is
\* called and the loop goes on
callAll(c, handlers) ==
    IF handlers = <<>> THEN c
    ELSE callAll([c EXCEPT !.invoked = Append(@, Head(handlers))], Tail(handlers))

\* mutant: the handlers of every event type are called
dispatch_EveryType(c, o, type) ==
    LET c1 == IF c.escaped THEN c ELSE callAll(c, c.objs[o].handlers["INSERT"])
        c2 == IF c1.escaped THEN c1 ELSE callAll(c1, c.objs[o].handlers["UPDATE"])
        c3 == IF c2.escaped THEN c2 ELSE callAll(c2, c.objs[o].handlers["DELETE"])
    IN IF c3.escaped THEN c3 ELSE callAll(c3, c.objs[o].handlers["*"])

\* the handlers of payload.type, then the wildcard handlers; an exception
\* that left the first loop would skip the second
dispatch(c, o, type) ==
    LET c1 == callAll(c, c.objs[o].handlers[type])
    IN IF c1.escaped THEN c1 ELSE callAll(c1, c.objs[o].handlers["*"])

\* handleMessage for a well-formed {type: 'event', channel, payload} frame
handleMessage(c, name, type) ==
    IF Lookup(c, name) # 0 THEN dispatch(c, Lookup(c, name), type) ELSE c

\* ---------------------------------------------------------------- actions
\* obj: the channel object of the call, or 0; sock: "held" for the socket
\* this.ws refers to, the readyState of a detached one ("CANCELLED" for one
\* closed before it opened), the payload type of a dispatch, or "-"
Op(op, obj, sock) == [op |-> op, obj |-> obj, sock |-> sock]

KindName(k) ==
    IF k.readyState = "CLOSING" /\ ~k.opened THEN "CANCELLED" ELSE k.readyState

\* the registered channel objects whose subscribed flag is set
SubscribedObjs(c) == {o \in Range(c.channels) : c.objs[o].subscribed}

\* store the record a handler produced
Set(c, l) ==
    /\ ~c.overflow
    \* a position no ws.send of the handler reached raises nothing
    /\ \A i \in c.faults : i <= c.nsend
    /\ Len(c.messageQueue) <= MaxQueue
    /\ wsUrlOk' = c.wsUrlOk
    /\ ws' = c.ws
    /\ channels' = c.channels
    /\ connectionState' = c.connectionState
    /\ reconnectAttempts' = c.reconnectAttempts
    /\ reconnectTimeout' = c.reconnectTimeout
    /\ heartbeatInterval' = c.heartbeatInterval
    /\ messageQueue' = c.messageQueue
    /\ objs' = c.objs
    /\ detached' = c.detached
    /\ handed' = c.handed
    /\ wire' = c.wire
    /\ overtaken' = c.overtaken
    /\ invoked' = c.invoked
    /\ escaped' = c.escaped
    /\ scheduled' = c.scheduled
    /\ attempted' = c.attempted
    /\ last' = l

Init ==
    /\ wsUrlOk = TRUE
    /\ ws = "null"
    /\ channels = <<>>
    /\ connectionState = "DISCONNECTED"
    /\ reconnectAttempts = 0
    /\ reconnectTimeout = 0
    /\ heartbeatInterval = FALSE
    /\ messageQueue = <<>>
    /\ objs = <<>>
    /\ detached = [k \in SocketKinds |-> 0]
    /\ handed = <<>>
    /\ wire = <<>>
    /\ overtaken = <<>>
    /\ invoked = <<>>
    /\ escaped = FALSE
    /\ scheduled = 0
    /\ last = Op("new", 0, "-")
    /\ attempted = FALSE
    /\ streak = 0
    /\ atLoss = {}

\* the names are interchangeable: the application uses "A" before "B"
NameOrder(name) == name = "A" \/ \E o \in 1..Len(objs) : objs[o].name = "A"

\* client.channel(name)
\* cap: the number of RealtimeChannel objects the application constructs
ChannelIn(name, cap) ==
    /\ NameOrder(name)
    /\ Lookup(St({}), name) # 0 \/ Len(objs) < cap
    /\ Set(channel(St({}), name),
           Op("channel", Lookup(channel(St({}), name), name), "-"))
    /\ UNCHANGED <<streak, atLoss>>

Channel(name) == ChannelIn(name, MaxObjs)

\* channel.subscribe() on any object the application holds; F: the ways
\* ws.send may raise
SubscribeIn(o, F) ==
    /\ \E f \in F :
          Set(subscribe(St(f), o), Op("subscribe", o, "-"))
    /\ UNCHANGED <<streak, atLoss>>

Subscribe(o) == SubscribeIn(o, FaultSets)

\* channel.unsubscribe()
UnsubscribeIn(o, F) ==
    /\ \E f \in F :
          Set(unsubscribe(St(f), o), Op("unsubscribe", o, "-"))
    /\ UNCHANGED <<streak, atLoss>>

Unsubscribe(o) == UnsubscribeIn(o, FaultSets)

\* mutant: the exception of the WebSocket constructor leaves connect()
Connect_Raises ==
    /\ Set(IF ~wsUrlOk /\ connectionState \notin {"CONNECTED", "CONNECTING"}
           THEN [St({}) EXCEPT !.connectionState = "CONNECTING",
                               !.attempted = TRUE,
                               !.escaped = TRUE]
           ELSE connect(St({})),
           Op("connect", 0, "-"))
    /\ UNCHANGED <<streak, atLoss>>

\* client.realtime.connect()
Connect ==
    /\ Set(connect(St({})), Op("connect", 0, "-"))
    /\ UNCHANGED <<streak, atLoss>>

\* client.realtime.disconnect()
Disconnect ==
    /\ Set(disconnect(St({})), Op("disconnect", 0, "-"))
    /\ UNCHANGED <<streak, atLoss>>

\* the open event of the socket this.ws refers to
HeldSocketOpensIn(F) ==
    /\ ws = "CONNECTING"
    /\ \E f \in F :
          Set(onopen([St(f) EXCEPT !.ws = "OPEN"]), Op("open", 0, "held"))
    /\ streak' = 0
    /\ atLoss' = {}

HeldSocketOpens == HeldSocketOpensIn(FaultSets)

\* the open event of a socket the client has dropped
DetachedSocketOpens ==
    /\ detached[[readyState |-> "CONNECTING", opened |-> FALSE]] > 0
    /\ \E f \in FaultSets :
          Set(onopen([St(f) EXCEPT
                        !.detached[[readyState |-> "CONNECTING", opened |-> FALSE]] = @ - 1,
                        !.detached[[readyState |-> "OPEN", opened |-> TRUE]] = @ + 1]),
              Op("open", 0, "CONNECTING"))
    /\ streak' = 0
    /\ atLoss' = {}

\* the close event of the socket this.ws refers to, alone or after an error
\* event; the readyState is CLOSED when the handlers run
HeldSocketCloses ==
    /\ ws # "null"
    /\ \E err \in BOOLEAN :
          LET c0 == [St({}) EXCEPT !.ws = "null"]
              c1 == IF err THEN onerror(c0) ELSE c0
          IN Set(onclose(c1), Op("close", 0, "held"))
    /\ atLoss' = SubscribedObjs(St({}))
    /\ UNCHANGED streak

\* the close event of a socket the client has dropped
DetachedSocketCloses(k) ==
    /\ detached[k] > 0
    /\ \E err \in BOOLEAN :
          LET c0 == [St({}) EXCEPT !.detached[k] = @ - 1]
              c1 == IF err THEN onerror(c0) ELSE c0
          IN Set(onclose(c1), Op("close", 0, KindName(k)))
    /\ UNCHANGED <<streak, atLoss>>

\* mutant: the firing timer leaves the pending-timer marker set
TimerFires_KeepMarker(maxAttempts) ==
    /\ reconnectTimeout # 0
    /\ reconnectAttempts < maxAttempts
    /\ LET c1 == [St({}) EXCEPT !.reconnectAttempts = @ + 1]
       IN Set(connect(c1), Op("timer", 0, "-"))
    /\ streak' = streak + 1
    /\ UNCHANGED atLoss

\* the setTimeout callback of scheduleReconnect
TimerFires(maxAttempts) ==
    /\ reconnectTimeout # 0
    /\ reconnectAttempts < maxAttempts
    /\ LET c1 == [St({}) EXCEPT !.reconnectTimeout = 0,
                               !.reconnectAttempts = @ + 1]
       IN Set(connect(c1), Op("timer", 0, "-"))
    /\ streak' = streak + 1
    /\ UNCHANGED atLoss

ReconnectTimerFires == TimerFires(MaxAttempts)

\* the setInterval callback of startHeartbeat
HeartbeatTick ==
    /\ heartbeatInterval
    /\ \E f \in FaultSets :
          Set(sendMessage(St(f), HeartbeatFrame), Op("heartbeat", 0, "-"))
    /\ UNCHANGED <<streak, atLoss>>

Objs == 1..Len(objs)

\* channel.on(event, callback)
On(o, event, callback) ==
    /\ Set(on(St({}), o, event, callback), Op("on", o, "-"))
    /\ UNCHANGED <<streak, atLoss>>

\* channel.off(event, callback) and channel.off(event)
Off(o, event, callback) ==
    /\ Set(off(St({}), o, event, callback), Op("off", o, "-"))
    /\ UNCHANGED <<streak, atLoss>>

\* the message event of an open socket with an event frame for `name`;
\* every socket carries the same onmessage closure
Message(name, type) ==
    /\ ws = "OPEN" \/ detached[[readyState |-> "OPEN", opened |-> TRUE]] > 0
    /\ Set(handleMessage(St({}), name, type), Op("message", Lookup(St({}), name), "-"))
    /\ UNCHANGED <<streak, atLoss>>

Next ==
    \/ \E n \in Names : Channel(n)
    \/ \E o \in Objs : Subscribe(o)
    \/ \E o \in Objs : Unsubscribe(o)
    \/ Connect
    \/ Disconnect
    \/ HeldSocketOpens
    \/ DetachedSocketOpens
    \/ HeldSocketCloses
    \/ \E k \in SocketKinds : DetachedSocketCloses(k)
    \/ ReconnectTimerFires
    \/ HeartbeatTick

Spec == Init /\ [][Next]_vars

\* the channel interface with its handlers, over a transport that does not
\* fail: sockets open, close only after disconnect(), and send does not raise
\* on an open socket
NoFault == {{}}

NextChan ==
    \/ \E n \in Names : Channel(n)
    \/ \E o \in Objs, e \in ChanEvents, cb \in ChanCallbacks : On(o, e, cb)
    \/ \E o \in Objs, e \in ChanEvents, cb \in ChanCallbacks \cup {""} : Off(o, e, cb)
    \/ \E o \in Objs : SubscribeIn(o, NoFault)
    \/ \E o \in Objs : UnsubscribeIn(o, NoFault)
    \/ Connect
    \/ Disconnect
    \/ HeldSocketOpensIn(NoFault)
    \/ \E k \in SocketKinds : DetachedSocketCloses(k)
    \/ \E n \in Names, ty \in PayloadTypes : Message(n, ty)

SpecChan == Init /\ [][NextChan]_vars

\* the connection alone, over many reconnect attempts and with a url that
\* the WebSocket constructor may reject
InitBackoff ==
    /\ wsUrlOk \in BOOLEAN
    /\ ws = "null"
    /\ channels = <<>>
    /\ connectionState = "DISCONNECTED"
    /\ reconnectAttempts = 0
    /\ reconnectTimeout = 0
    /\ heartbeatInterval = FALSE
    /\ messageQueue = <<>>
    /\ objs = <<>>
    /\ detached = [k \in SocketKinds |-> 0]
    /\ handed = <<>>
    /\ wire = <<>>
    /\ overtaken = <<>>
    /\ invoked = <<>>
    /\ escaped = FALSE
    /\ scheduled = 0
    /\ last = Op("new", 0, "-")
    /\ attempted = FALSE
    /\ streak = 0
    /\ atLoss = {}

BackoffTimerFires == TimerFires(MaxBackoffAttempts)

NextBackoff ==
    \/ Connect
    \/ Disconnect
    \/ HeldSocketOpensIn(NoFault)
    \/ DetachedSocketOpens
    \/ HeldSocketCloses
    \/ \E k \in SocketKinds : DetachedSocketCloses(k)
    \/ BackoffTimerFires

SpecBackoff == InitBackoff /\ [][NextBackoff]_vars

\* the recovery loop with the runtime's guarantee that a pending setTimeout
\* callback runs
SpecLive == InitBackoff /\ [][NextBackoff]_vars /\ WF_vars(BackoffTimerFires)

\* the channels and the connection of a client whose url the WebSocket
\* constructor may reject
NextFail ==
    \/ \E n \in Names : Channel(n)
    \/ \E o \in Objs : SubscribeIn(o, NoFault)
    \/ \E o \in Objs : UnsubscribeIn(o, NoFault)
    \/ Connect
    \/ Disconnect
    \/ HeldSocketOpensIn(NoFault)
    \/ HeldSocketCloses
    \/ \E k \in SocketKinds : DetachedSocketCloses(k)
    \/ ReconnectTimerFires

SpecFail == InitBackoff /\ [][NextFail]_vars

\* channel objects that outlive their registry entry: the application keeps
\* the objects it got from channel(name) across disconnect()
NextStale ==
    \/ \E n \in Names : ChannelIn(n, MaxRegObjs)
    \/ \E o \in Objs : SubscribeIn(o, NoFault)
    \/ \E o \in Objs : UnsubscribeIn(o, NoFault)
    \/ Disconnect
    \/ HeldSocketOpensIn(NoFault)

SpecStale == Init /\ [][NextStale]_vars

\* channel.dispatch(payload), called on a channel object as the unit tests do
Dispatch(o, type) ==
    /\ Set(dispatch(St({}), o, type), Op("dispatch", o, type))
    /\ UNCHANGED <<streak, atLoss>>

\* event types that have handlers in the dispatch specification
DispatchEvents == {"INSERT", "UPDATE", "*"}

\* the handler sets of one event: callbacks in insertion order
HandlerSeqs ==
    {s \in UNION {[1..n -> Callbacks] : n \in 0..Cardinality(Callbacks)} :
        \A i, j \in 1..Len(s) : i # j => s[i] # s[j]}

\* one channel with any handlers registered by on()
InitDispatch ==
    /\ wsUrlOk = TRUE
    /\ ws = "null"
    /\ channels = <<1>>
    /\ connectionState = "DISCONNECTED"
    /\ reconnectAttempts = 0
    /\ reconnectTimeout = 0
    /\ heartbeatInterval = FALSE
    /\ messageQueue = <<>>
    /\ \E h \in [DispatchEvents -> HandlerSeqs] :
          objs = <<[NewChannel("A") EXCEPT
                      !.handlers = [e \in RealtimeEventType |->
                                      IF e \in DispatchEvents THEN h[e] ELSE <<>>]]>>
    /\ detached = [k \in SocketKinds |-> 0]
    /\ handed = <<>>
    /\ wire = <<>>
    /\ overtaken = <<>>
    /\ invoked = <<>>
    /\ escaped = FALSE
    /\ scheduled = 0
    /\ last = Op("new", 0, "-")
    /\ attempted = FALSE
    /\ streak = 0
    /\ atLoss = {}

NextDispatch == \E o \in Objs, ty \in PayloadTypes : Dispatch(o, ty)

SpecDispatch == InitDispatch /\ [][NextDispatch]_vars

\* the registry and the channel objects: channels are created, subscribed,
\* unsubscribed and given handlers, the socket opens, messages arrive
NextReg ==
    \/ \E n \in Names : ChannelIn(n, MaxRegObjs)
    \/ \E o \in Objs, e \in ChanEvents, cb \in ChanCallbacks : On(o, e, cb)
    \/ \E o \in Objs, e \in ChanEvents, cb \in ChanCallbacks \cup {""} : Off(o, e, cb)
    \/ \E o \in Objs : SubscribeIn(o, NoFault)
    \/ \E o \in Objs : UnsubscribeIn(o, NoFault)
    \/ HeldSocketOpensIn(NoFault)
    \/ \E n \in Names, ty \in PayloadTypes : Message(n, ty)

SpecReg == Init /\ [][NextReg]_vars

TypeOK ==
    /\ ws \in {"null", "CONNECTING", "OPEN"}
    /\ connectionState \in ConnectionState
    /\ reconnectAttempts \in 0..MaxBackoffAttempts
    /\ heartbeatInterval \in BOOLEAN
    /\ Len(messageQueue) <= MaxQueue
    /\ Len(objs) <= MaxObjs \/ Len(objs) <= MaxRegObjs
    /\ escaped \in BOOLEAN
    /\ \A k \in SocketKinds : detached[k] \in 0..MaxSockets
    /\ streak = reconnectAttempts

\* ----------------------------------------------------------------- claims
Connecting == [readyState |-> "CONNECTING", opened |-> FALSE]
Open == [readyState |-> "OPEN", opened |-> TRUE]
ClosingOpened == [readyState |-> "CLOSING", opened |-> TRUE]
ClosingUnopened == [readyState |-> "CLOSING", opened |-> FALSE]

\* sockets created by the client that are connecting or open: close() was
\* not called on them and their close event has not come
PhysicalSockets ==
    (IF ws = "null" THEN 0 ELSE 1) + detached[Connecting] + detached[Open]

\* how often frame f occurs in the sequence s
Count(s, f) == Cardinality({i \in 1..Len(s) : s[i] = f})

\* C1 (P1, single connection): at no point does more than one socket of the
\* client exist that is connecting or open.
C1_SingleConnection == PhysicalSockets <= 1

\* C2 (P4, resubscribe on reconnect): when the transport was closed and the
\* socket of a later reconnect attempt opens, the open handler emits exactly
\* one subscribe frame for every channel that was subscribed at the moment
\* of the disconnect (and still is), and none for a registered channel that
\* is not subscribed and has no frame waiting.
C2_ResubscribeOnce ==
    [][(last'.op = "open" /\ last'.sock = "held" /\ streak > 0)
        => /\ \A o \in atLoss \cap SubscribedObjs(St({})) :
                 Count(handed', Frame("subscribe", objs[o].name)) = 1
           /\ \A o \in Range(channels) \ SubscribedObjs(St({})) :
                 Count(messageQueue, Frame("subscribe", objs[o].name)) = 0
                 => Count(handed', Frame("subscribe", objs[o].name)) = 0]_vars

\* the fields of the client that describe its connection
conn == <<connectionState, ws, detached, reconnectAttempts, reconnectTimeout,
          heartbeatInterval, attempted>>

\* C3 (P2, idempotent subscribe): subscribe() on a channel that is not
\* subscribed hands exactly one subscribe frame to the send path and sets
\* the flag; subscribe() on a subscribed channel hands nothing to the send
\* path, does not notify the manager (no connection attempt, nothing
\* changes) and leaves the channel subscribed.  Two calls: one frame.
C3_IdempotentSubscribe ==
    [][last'.op = "subscribe"
        => IF objs[last'.obj].subscribed
           THEN /\ handed' = <<>>
                /\ wire' = <<>>
                /\ objs'[last'.obj].subscribed
                /\ UNCHANGED <<messageQueue, objs, channels, conn>>
           ELSE /\ handed' = <<Frame("subscribe", objs[last'.obj].name)>>
                /\ objs'[last'.obj].subscribed]_vars

\* a second subscribe() has run on a channel whose first one was queued
C3_Witness ==
    /\ last.op = "subscribe"
    /\ handed = <<>>
    /\ objs[last.obj].subscribed
    /\ Frame("subscribe", objs[last.obj].name) \in Range(messageQueue)

C5_FifoOrder == overtaken = <<>>

\* the delay the claim gives for the k-th scheduled reconnect
ClaimedDelay(k) == IF k >= 5 THEN 30000 ELSE 1000 * Pow(2, k)

C7_DisconnectTearsDown ==
    [][last'.op = "disconnect"
        => /\ connectionState' = "DISCONNECTED"
           /\ ws' = "null"
           /\ ws # "null" =>
                 detached'[[readyState |-> "CLOSING", opened |-> ws = "OPEN"]]
                 = detached[[readyState |-> "CLOSING", opened |-> ws = "OPEN"]] + 1
           /\ channels' = <<>>
           /\ messageQueue' = <<>>
           /\ ~heartbeatInterval'
           /\ reconnectTimeout' = 0]_vars

\* disconnect() has run during recovery: reconnect attempts were made, no
\* socket was held, channels had been created
C7_Witness ==
    /\ last.op = "disconnect"
    /\ reconnectAttempts > 0
    /\ Len(objs) > 0
    /\ reconnectTimeout = 0

\* C8: after disconnect() every channel object has subscribed = FALSE and no
\* handler, so that dispatching to it calls nothing.
C8_DisconnectClearsChannels ==
    last.op = "disconnect"
    => \A o \in Objs : ~objs[o].subscribed /\ objs[o].handlers = NoHandlers

\* C9 (cancellation): the close event of a socket that disconnect() closed
\* while it was connecting is a no-op: state, handle, timers, attempt counter
\* and queue stay as they are and nothing is sent.
C9_CancelledAttemptIsNoOp ==
    [][(last'.op = "close" /\ last'.sock = "CANCELLED")
        => /\ UNCHANGED <<connectionState, ws, reconnectAttempts,
                          reconnectTimeout, heartbeatInterval, messageQueue>>
           /\ handed' = <<>>
           /\ wire' = <<>>]_vars

\* C10 (P3, lazy connect): channel(), on() and off() leave the connection as
\* it is; as long as no connection attempt was made the state is
\* DISCONNECTED and no socket exists; the first attempt is made by a
\* subscribe() or a connect() in state DISCONNECTED.
C10_LazyConnect ==
    [][/\ last'.op \in {"channel", "on", "off"} => UNCHANGED conn
       /\ ~attempted' =>
             /\ connectionState' = "DISCONNECTED"
             /\ ws' = "null"
             /\ \A k \in SocketKinds : detached'[k] = 0
             /\ reconnectTimeout' = 0 /\ ~heartbeatInterval'
       /\ (~attempted /\ attempted') =>
             /\ last'.op \in {"subscribe", "connect"}
             /\ connectionState = "DISCONNECTED"]_vars

\* channels were created and a handler registered, and no attempt was made
C10_Witness ==
    /\ ~attempted
    /\ last.op = "on"
    /\ Len(objs) > 0
    /\ \E o \in Objs : objs[o].handlers # NoHandlers

\* the registry entry for a name in the next state, or 0
LookupNext(name) ==
    IF \E i \in 1..Len(channels') : objs'[channels'[i]].name = name
    THEN channels'[CHOOSE i \in 1..Len(channels') : objs'[channels'[i]].name = name]
    ELSE 0

\* C11 (P9, unsubscribe clears state): unsubscribe() on a subscribed channel
\* leaves it not subscribed, without handlers, and with no registry entry
\* under its name; a message for a name that has no registry entry invokes
\* no handler, and a message never reaches an object outside the registry;
\* channel(name) for a name without registry entry returns a new object
\* that is not subscribed and has no handlers.
C11_UnsubscribeClearsState ==
    [][/\ (last'.op = "unsubscribe" /\ objs[last'.obj].subscribed)
            => /\ ~objs'[last'.obj].subscribed
               /\ objs'[last'.obj].handlers = NoHandlers
               /\ last'.obj \notin Range(channels')
               /\ LookupNext(objs[last'.obj].name) = 0
       /\ last'.op = "message"
            => /\ last'.obj = 0 => invoked' = <<>>
               /\ last'.obj # 0 => last'.obj \in Range(channels)
       /\ (last'.op = "channel" /\ last'.obj \notin Range(channels))
            => /\ last'.obj = Len(objs) + 1
               /\ objs' = Append(objs, NewChannel(objs'[last'.obj].name))
               /\ last'.obj \in Range(channels')]_vars

\* a message has arrived for the name of a channel that was unsubscribed
\* while another channel kept the connection up
C11_Witness ==
    /\ last.op = "message"
    /\ last.obj = 0
    /\ ws = "OPEN"
    /\ Len(objs) = 2
    /\ 1 \notin Range(channels)
    /\ 2 \in Range(channels)
    /\ objs[1].name # objs[2].name

\* the handlers the dispatched channel has for an event
HandlersOf(event) == objs[last'.obj].handlers[event]

\* C12 (P7, handler isolation): a dispatch calls every callback registered
\* for the payload type and every wildcard callback, those registered after
\* a callback that throws included, and no exception leaves dispatch.
C12_HandlerIsolation ==
    [][last'.op = "dispatch"
        => /\ \A cb \in Range(HandlersOf(last'.sock)) \cup Range(HandlersOf("*")) :
                 cb \in Range(invoked')
           /\ ~escaped']_vars

\* the throwing callback was called first, then a callback of the same
\* type, then a wildcard callback
C12_Witness ==
    /\ last.op = "dispatch"
    /\ last.sock = "UPDATE"
    /\ invoked = <<"bad", "h1", "h2">>
    /\ objs[1].handlers["UPDATE"] = <<"bad", "h1">>
    /\ objs[1].handlers["*"] = <<"h2">>

\* C13 (P8, dispatch by type): a dispatch of a payload of type T calls the
\* callbacks registered under T, in registration order, then the callbacks
\* registered under '*', each once per registration, and nothing else.
C13_DispatchByType ==
    [][last'.op = "dispatch"
        => invoked' = HandlersOf(last'.sock) \o HandlersOf("*")]_vars

\* an UPDATE payload was dispatched on a channel that has an INSERT handler,
\* an UPDATE handler and a wildcard handler
C13_Witness ==
    /\ last.op = "dispatch"
    /\ last.sock = "UPDATE"
    /\ objs[1].handlers["INSERT"] = <<"h1">>
    /\ objs[1].handlers["UPDATE"] = <<"h2">>
    /\ objs[1].handlers["*"] = <<"bad">>
    /\ invoked = <<"h2", "bad">>

\* C14: the subscribed flag of a channel is true after its subscribe(),
\* false after its unsubscribe(), false when it is constructed, and no other
\* step (open, close, error, reconnect timer, heartbeat, connect,
\* disconnect, channel) changes it.
C14_SubscribedFlag ==
    [][/\ \A o \in 1..Len(objs') :
            IF o > Len(objs) THEN ~objs'[o].subscribed
            ELSE IF last'.op = "subscribe" /\ last'.obj = o THEN objs'[o].subscribed
            ELSE IF last'.op = "unsubscribe" /\ last'.obj = o THEN ~objs'[o].subscribed
            ELSE objs'[o].subscribed = objs[o].subscribed
       /\ Len(objs') >= Len(objs)]_vars

\* a channel is subscribed while the manager is RECONNECTING after a close
C14_Witness ==
    /\ last.op = "close"
    /\ connectionState = "RECONNECTING"
    /\ \E o \in Range(channels) : objs[o].subscribed

\* C15: no two registry entries have the same name or the same object;
\* channel(name) returns the registered object when the name has an entry
\* and changes nothing, and otherwise constructs one object with that name
\* and appends one entry for it.
C15_RegistryUnique ==
    [][/\ \A i, j \in 1..Len(channels') :
            i # j => /\ channels'[i] # channels'[j]
                     /\ objs'[channels'[i]].name # objs'[channels'[j]].name
       /\ last'.op = "channel"
            => IF last'.obj \in Range(channels)
               THEN UNCHANGED <<channels, objs>>
               ELSE /\ \A i \in 1..Len(channels) :
                          objs[channels[i]].name # objs'[last'.obj].name
                    /\ Len(objs') = Len(objs) + 1
                    /\ channels' = Append(channels, Len(objs'))
                    /\ last'.obj = Len(objs')]_vars

\* channel(name) has returned the entry of a registry that holds two names
C15_Witness ==
    /\ last.op = "channel"
    /\ Len(channels) = 2
    /\ Len(objs) = 2
    /\ last.obj = 1

\* C16: connect() while CONNECTING or CONNECTED changes nothing: no socket
\* is created, and state, handle, queue, timers and attempt counter stay.
C16_ConnectIdempotent ==
    [][(last'.op = "connect" /\ connectionState \in {"CONNECTING", "CONNECTED"})
        => /\ UNCHANGED <<connectionState, ws, detached, messageQueue,
                          reconnectTimeout, heartbeatInterval,
                          reconnectAttempts, channels, objs>>
           /\ handed' = <<>>
           /\ wire' = <<>>]_vars

\* connect() has run on a connected manager
C16_Witness ==
    /\ last.op = "connect"
    /\ connectionState = "CONNECTED"
    /\ ws = "OPEN"
    /\ heartbeatInterval

\* C17: unsubscribe() on a channel that is not subscribed hands nothing to
\* the send path and changes nothing (registry, handlers, connection);
\* unsubscribe() on a subscribed channel hands exactly one unsubscribe
\* frame.  Two calls: one frame.
C17_UnsubscribeNoOp ==
    [][last'.op = "unsubscribe"
        => IF objs[last'.obj].subscribed
           THEN handed' = <<Frame("unsubscribe", objs[last'.obj].name)>>
           ELSE /\ handed' = <<>>
                /\ wire' = <<>>
                /\ UNCHANGED <<messageQueue, objs, channels, conn>>]_vars

\* unsubscribe() has run on a registered channel that has a handler and is
\* not subscribed
C17_Witness ==
    /\ last.op = "unsubscribe"
    /\ handed = <<>>
    /\ last.obj \in Range(channels)
    /\ objs[last.obj].handlers # NoHandlers
    /\ ~objs[last.obj].subscribed

\* C18 (no fatal error state): the state becomes DISCONNECTED only by a
\* disconnect() (or an unsubscribe() that empties the registry); while the
\* state is RECONNECTING a reconnect timer is pending; a RECONNECTING
\* manager whose attempt counter is below the bound of the model eventually
\* makes another attempt (its reconnect timer fires and calls connect()) or
\* leaves RECONNECTING; and an open event makes the state CONNECTED.
C18_NoFatalState ==
    /\ [][(connectionState # "DISCONNECTED" /\ connectionState' = "DISCONNECTED")
            => last'.op \in {"disconnect", "unsubscribe"}]_vars
    /\ [](connectionState = "RECONNECTING" => reconnectTimeout # 0)
    /\ [][last'.op = "open" => connectionState' = "CONNECTED"]_vars
    /\ \A k \in 0..(MaxBackoffAttempts - 1) :
          (connectionState = "RECONNECTING" /\ reconnectAttempts = k)
             ~> (connectionState # "RECONNECTING" \/ reconnectAttempts > k)

\* the sixth reconnect attempt in a row is under way
C18_Witness ==
    /\ last.op = "timer"
    /\ connectionState = "CONNECTING"
    /\ reconnectAttempts = 6

\* C19: a close event (with or without a preceding error event), of any
\* socket of the client, stops the heartbeat and sets the handle to null;
\* when the state was not DISCONNECTED it becomes RECONNECTING and a
\* reconnect timer is pending afterwards; when it was DISCONNECTED it stays
\* DISCONNECTED and no timer is pending.
C19_CloseHandling ==
    [][last'.op = "close"
        => /\ ~heartbeatInterval'
           /\ ws' = "null"
           /\ IF connectionState # "DISCONNECTED"
              THEN /\ connectionState' = "RECONNECTING"
                   /\ reconnectTimeout' # 0
                   /\ reconnectTimeout = 0 => scheduled' = reconnectTimeout'
              ELSE /\ connectionState' = "DISCONNECTED"
                   /\ reconnectTimeout' = 0
                   /\ scheduled' = 0]_vars

\* the connected socket closed: the heartbeat was running and is stopped,
\* a reconnect is scheduled
C19_Witness ==
    /\ last.op = "close"
    /\ last.sock = "held"
    /\ connectionState = "RECONNECTING"
    /\ scheduled = 1000
    /\ reconnectAttempts = 0
    /\ attempted

\* the subscribe frames of the objects in s, in order
RECURSIVE FramesOf(_)
FramesOf(s) ==
    IF s = <<>> THEN <<>>
    ELSE <<Frame("subscribe", objs[Head(s)].name)>> \o FramesOf(Tail(s))

\* the registered subscribed objects, in registry order
RECURSIVE SubscribedIn(_)
SubscribedIn(s) ==
    IF s = <<>> THEN <<>>
    ELSE (IF objs[Head(s)].subscribed THEN <<Head(s)>> ELSE <<>>)
         \o SubscribedIn(Tail(s))

\* C20: the open event of the socket this.ws refers to sets the state to
\* CONNECTED and the attempt counter to 0, starts the heartbeat, transmits
\* the queued frames in queue order, leaving the queue empty, and then
\* transmits one subscribe frame for every channel object whose subscribed
\* flag is set.
C20_OpenSequence ==
    [][(last'.op = "open" /\ last'.sock = "held")
        => /\ connectionState' = "CONNECTED"
           /\ reconnectAttempts' = 0
           /\ heartbeatInterval'
           /\ messageQueue' = <<>>
           /\ \E rest \in [1..(Len(wire') - Len(messageQueue)) -> Objs] :
                 /\ wire' = messageQueue \o FramesOf(rest)
                 /\ \A o \in Objs :
                       Cardinality({i \in DOMAIN rest : rest[i] = o})
                       = IF objs[o].subscribed THEN 1 ELSE 0]_vars

\* a subscribed channel's unsubscribe() that left the registry empty ran
\* disconnect()
RanDisconnect ==
    \/ last'.op = "disconnect"
    \/ last'.op = "unsubscribe" /\ objs[last'.obj].subscribed /\ channels' = <<>>

\* C21: no handler drops a frame.  A frame handed to sendMessage while the
\* state is not CONNECTED or there is no socket is not transmitted; every
\* frame handed to sendMessage, and every frame that was queued, is after
\* the handler either transmitted or in the queue, unless the handler ran
\* disconnect(), which empties the queue.
C21_NoSilentDrop ==
    [][IF handed' = <<>>
       THEN /\ wire' = <<>>
            /\ messageQueue' = messageQueue \/ RanDisconnect
       ELSE /\ (last'.op \in {"subscribe", "unsubscribe", "heartbeat"}
                /\ (connectionState # "CONNECTED" \/ ws = "null"))
               => (wire' = <<>> /\ (~RanDisconnect => messageQueue' = messageQueue \o handed'))
            /\ ~RanDisconnect
               => \A f \in Range(handed') \cup Range(messageQueue) :
                     Count(messageQueue', f) + Count(wire', f)
                     = IF last'.op = "open"
                       THEN Count(handed', f)
                       ELSE Count(messageQueue, f) + Count(handed', f)]_vars

\* a heartbeat frame whose ws.send raised is in the queue
C21_Witness ==
    /\ last.op = "heartbeat"
    /\ connectionState = "CONNECTED"
    /\ ws = "OPEN"
    /\ handed = <<HeartbeatFrame>>
    /\ wire = <<>>
    /\ messageQueue = <<HeartbeatFrame>>

\* C22: setTimeout is called only when no reconnect timer is pending (the
\* one that is firing is no longer pending); a close event that arrives
\* while a timer is pending leaves the timer and its delay as they are; the
\* firing timer adds exactly one to the attempt counter, clears the marker
\* and calls connect(): unless connect() returns at its guard, the client is
\* CONNECTING with a new socket, or RECONNECTING with a new timer when the
\* constructor raised.
C22_SingleTimer ==
    [][/\ scheduled' # 0 => (reconnectTimeout = 0 \/ last'.op = "timer")
       /\ (last'.op = "close" /\ reconnectTimeout # 0)
          => (scheduled' = 0 /\ reconnectTimeout' = reconnectTimeout)
       /\ last'.op = "timer"
          => /\ reconnectTimeout # 0
             /\ reconnectAttempts' = reconnectAttempts + 1
             /\ reconnectTimeout' = scheduled'
             /\ IF connectionState \in {"CONNECTED", "CONNECTING"}
                THEN /\ scheduled' = 0
                     /\ connectionState' = connectionState
                     /\ ws' = ws
                ELSE /\ attempted'
                     /\ IF wsUrlOk
                        THEN /\ connectionState' = "CONNECTING"
                             /\ ws' = "CONNECTING"
                             /\ scheduled' = 0
                        ELSE /\ connectionState' = "RECONNECTING"
                             /\ ws' = "null"
                             /\ scheduled' = BackoffDelay(reconnectAttempts')]_vars

\* a close event arrived while a reconnect timer was pending, after two
\* attempts, and the timer is as it was
C22_Witness ==
    /\ last.op = "close"
    /\ connectionState = "RECONNECTING"
    /\ reconnectAttempts = 2
    /\ reconnectTimeout = 4000
    /\ scheduled = 0

\* the handler of this step ran connect() past its guard
ConnectRan ==
    \/ last'.op \in {"connect", "timer"}
       /\ connectionState \notin {"CONNECTED", "CONNECTING"}
    \/ last'.op = "subscribe"
       /\ ~objs[last'.obj].subscribed
       /\ connectionState = "DISCONNECTED"

\* C23: when the WebSocket constructor raises inside connect(), whether
\* connect() was called by the application, by subscribe() or by the
\* reconnect timer, no exception leaves the handler, this.ws is null, the
\* state is RECONNECTING and a reconnect timer is pending: the one that was
\* pending, or a new one with the backoff delay of the attempt counter.  A
\* subscribe() that triggered it has set the flag and queued its frame.
C23_ConstructorFailure ==
    [][(ConnectRan /\ ~wsUrlOk)
        => /\ ~escaped'
           /\ attempted'
           /\ ws' = "null"
           /\ connectionState' = "RECONNECTING"
           /\ reconnectTimeout' # 0
           /\ IF reconnectTimeout # 0 /\ last'.op # "timer"
              THEN scheduled' = 0 /\ reconnectTimeout' = reconnectTimeout
              ELSE /\ scheduled' = BackoffDelay(reconnectAttempts')
                   /\ reconnectTimeout' = scheduled'
           /\ last'.op = "subscribe"
              => /\ objs'[last'.obj].subscribed
                 /\ messageQueue'
                    = Append(messageQueue, Frame("subscribe", objs[last'.obj].name))]_vars

\* subscribe() on a disconnected client whose url the constructor rejects
C23_Witness ==
    /\ last.op = "subscribe"
    /\ ~wsUrlOk
    /\ objs[last.obj].subscribed
    /\ connectionState = "RECONNECTING"
    /\ ws = "null"
    /\ scheduled = 1000
    /\ reconnectTimeout = 1000
    /\ ~escaped

\* C24: the heartbeat interval is pending exactly when the state is
\* CONNECTED: every open event starts it, every close event and every
\* disconnect() stops it.  A tick hands one heartbeat frame to sendMessage
\* and changes nothing of the connection.
C24_HeartbeatWhileConnected ==
    /\ [](heartbeatInterval <=> connectionState = "CONNECTED")
    /\ [][/\ last'.op = "open" => heartbeatInterval'
          /\ (last'.op = "close" \/ RanDisconnect) => ~heartbeatInterval'
          /\ last'.op = "heartbeat"
             => /\ connectionState = "CONNECTED"
                /\ handed' = <<HeartbeatFrame>>
                /\ conn' = conn]_vars

\* a tick on a connected client whose frame went out
C24_Witness ==
    /\ last.op = "heartbeat"
    /\ connectionState = "CONNECTED"
    /\ heartbeatInterval
    /\ handed = <<HeartbeatFrame>>
    /\ wire = <<HeartbeatFrame>>

\* C25: after unsubscribe() on a subscribed channel that leaves no
\* registered channel subscribed, the state is DISCONNECTED and the client
\* holds no socket, also when channels that are not subscribed are still
\* registered.
C25_DisconnectWhenNoneSubscribed ==
    [][(/\ last'.op = "unsubscribe"
        /\ objs[last'.obj].subscribed
        /\ \A o \in Range(channels') : ~objs'[o].subscribed)
        => /\ connectionState' = "DISCONNECTED"
           /\ ws' = "null"]_vars

\* C26: the client holds a socket exactly when its state is CONNECTING or
\* CONNECTED.
C26_HandleAgreesWithState ==
    ws # "null" <=> connectionState \in {"CONNECTING", "CONNECTED"}

\* C27: an open event transmits at most one subscribe frame for each channel
\* name.
C27_OneSubscribePerOpen ==
    [][last'.op = "open"
        => \A n \in Names : Count(wire', Frame("subscribe", n)) <= 1]_vars

\* C28: unsubscribe() on a channel object that is no longer registered,
\* while another object is registered under the same name, leaves the
\* registry and the connection as they are and hands no frame to the send
\* path.
C28_StaleObjectIsInert ==
    [][(/\ last'.op = "unsubscribe"
        /\ last'.obj \notin Range(channels)
        /\ \E o \in Range(channels) : objs[o].name = objs[last'.obj].name)
        => /\ channels' = channels
           /\ handed' = <<>>
           /\ conn' = conn]_vars

\* C29: a reconnect timer is pending exactly when the state is RECONNECTING.
C29_TimerOnlyWhileReconnecting ==
    reconnectTimeout # 0 <=> connectionState = "RECONNECTING"

\* the channel names a server holds subscribed after it has processed the
\* frames, having held `names` before
RECURSIVE Serve(_, _)
Serve(names, frames) ==
    IF frames = <<>> THEN names
    ELSE Serve(IF Head(frames).type = "subscribe"
               THEN names \cup {Head(frames).channel}
               ELSE IF Head(frames).type = "unsubscribe"
                    THEN names \ {Head(frames).channel}
                    ELSE names,
               Tail(frames))

\* C30: when the state is CONNECTED and the queue is empty, the names whose
\* last transmitted frame on the connection is a subscribe are the names of
\* the registered channels whose subscribed flag is set.  Stated for the
\* first moment of a connection: right after the open event of the socket
\* this.ws refers to, the frames transmitted on the connection are those of
\* the open handler, since ws.send raises on a socket that has not opened.
C30_ServerAgrees ==
    [][(/\ last'.op = "open"
        /\ last'.sock = "held"
        /\ connectionState' = "CONNECTED"
        /\ messageQueue' = <<>>)
        => Serve({}, wire')
           = {objs'[o].name : o \in {r \in Range(channels') : objs'[r].subscribed}}]_vars
====
